---- MODULE Spec2Model ----
(***************************************************************************)
(* Model of db_tools/influx_lp_writer.py: one pass of the batch driver's   *)
(* loop body, data = get_data_for_influx(...) followed by                  *)
(* write_files(db_name, uuid, data, column_mapping, chunk_size, slug).     *)
(*                                                                         *)
(* A DataFrame is a record [columns, rows]: columns is the sequence of     *)
(* column names, rows the sequence of rows, each row a sequence of cells   *)
(* aligned with columns.  A cell is a record [k, v]: k = "nan" is a        *)
(* missing value, k = "float" a number v, k = "ts" a timestamp of v tenths *)
(* of a second since the epoch.  Text is modelled by TLA+ strings.         *)
(***************************************************************************)
EXTENDS Integers, Sequences, FiniteSets, TLC

VARIABLES pc, called, exc, db_read, df, df_in, msp_columns, column_mapping,
          chunk_size, df_split, i, row, files, stdout

vars == <<pc, called, exc, db_read, df, df_in, msp_columns, column_mapping,
          chunk_size, df_split, i, row, files, stdout>>

(* ----------------------------- bounds ---------------------------------- *)

MaxRows == 5
MaxChunk == 3

(* ----------------------- the driver's arguments ------------------------ *)

db_name == "otherm-data"
equip_uuid == "abc-123"
site_name == "site"

NaN == [k |-> "nan", v |-> 0]
Float(x) == [k |-> "float", v |-> x]
Timestamp(t) == [k |-> "ts", v |-> t]
isna(c) == c.k = "nan"

\* Column lists the driver may ask the query for.
MspColumns ==
  { <<"ewt_1", "created", "heat_flow_1", "outdoor_temperature">>,
    <<"created", "outdoor_temperature", "heat_flow_rate", "ewt_1">>,
    <<"created", "ewt_1", "heat_flow_1">>,
    <<"ewt_1", "outdoor_temperature">> }

\* Rename tables: the driver's (the entries for the columns above), the
\* same without the heat-flow entry, and the empty one.
DriverMapping ==
  [c \in {"ewt_1", "outdoor_temperature", "heat_flow_1"} |->
     IF c = "ewt_1" THEN "source_supplytemp"
     ELSE IF c = "heat_flow_1" THEN "heat_flow_rate"
     ELSE "outdoor_temperature"]
NoHeatFlowMapping ==
  [c \in {"ewt_1", "outdoor_temperature"} |->
     IF c = "ewt_1" THEN "source_supplytemp" ELSE "outdoor_temperature"]
EmptyMapping == [c \in {} |-> ""]
ColumnMappings == {DriverMapping, NoHeatFlowMapping, EmptyMapping}

\* The readings one database record may hold: <<ewt, heat flow, outdoor>>.
Readings ==
  { <<NaN, NaN, NaN>>,
    <<Float(6), Float(3), Float(5)>>,
    <<Float(6), NaN, Float(7)>> }

\* created of the n-th record of a query result, ascending (ORDER BY).
CreatedOf(n) == Timestamp(1000 + 15 * (n - 1))

\* The cell of column name in the n-th record holding reading rd.
CellOf(name, n, rd) ==
  IF name = "created" THEN CreatedOf(n)
  ELSE IF name = "ewt_1" THEN rd[1]
  ELSE IF name \in {"heat_flow_1", "heat_flow_rate"} THEN rd[2]
  ELSE rd[3]

\* pd.read_sql: the result set of the query for the columns cols.
read_sql(cols, rds) ==
  [columns |-> cols,
   rows |-> [n \in 1..Len(rds) |->
               [j \in 1..Len(cols) |-> CellOf(cols[j], n, rds[n])]]]

(* ------------------------- DataFrame operations ------------------------ *)

has_column(d, name) == \E j \in 1..Len(d.columns) : d.columns[j] = name
col_index(d, name) == CHOOSE j \in 1..Len(d.columns) : d.columns[j] = name
get_column(d, name) ==
  [n \in 1..Len(d.rows) |-> d.rows[n][col_index(d, name)]]
set_column(d, name, col) ==
  [d EXCEPT !.rows =
     [n \in 1..Len(d.rows) |->
        [d.rows[n] EXCEPT ![col_index(d, name)] = col[n]]]]

\* df.sort_values('created'): ascending by the created cell.
sort_values(d) ==
  [d EXCEPT !.rows =
     SortSeq(d.rows, LAMBDA a, b :
               a[col_index(d, "created")].v < b[col_index(d, "created")].v)]

\* df.rename(mapper=column_mapping, axis=1)
rename_not_inplace(d, mapper) == d
rename(d, mapper) ==
  [d EXCEPT !.columns =
     [j \in 1..Len(d.columns) |->
        IF d.columns[j] \in DOMAIN mapper THEN mapper[d.columns[j]]
        ELSE d.columns[j]]]

mapping_values(mapper) == {mapper[c] : c \in DOMAIN mapper}

\* Series.fillna(0)
fillna_all(d, name) ==
  [d EXCEPT !.rows =
     [n \in 1..Len(d.rows) |->
        [j \in 1..Len(d.columns) |->
           IF isna(d.rows[n][j]) THEN Float(0) ELSE d.rows[n][j]]]]
fillna_zero(d, name) ==
  set_column(d, name,
    [n \in 1..Len(d.rows) |->
       IF isna(get_column(d, name)[n]) THEN Float(0)
       ELSE get_column(d, name)[n]])

\* Series.fillna(method='ffill'): carry the last value forward.
RECURSIVE bfill(_)
bfill(col) ==
  IF Len(col) = 0 THEN << >>
  ELSE LET rest == bfill(Tail(col))
       IN  <<IF isna(Head(col)) /\ Len(rest) > 0 THEN rest[1] ELSE Head(col)>>
           \o rest
RECURSIVE ffill(_)
ffill(col) ==
  IF Len(col) = 0 THEN << >>
  ELSE LET prev == ffill(SubSeq(col, 1, Len(col) - 1))
           last == col[Len(col)]
       IN  Append(prev, IF isna(last) /\ Len(prev) > 0
                        THEN prev[Len(prev)] ELSE last)

(* -------------------------- get_data_for_influx ------------------------ *)

RowLists == UNION {[1..n -> Readings] : n \in 0..MaxRows}

Init ==
  /\ pc = "connect"
  /\ called = "get_data_for_influx"
  /\ exc = "none"
  /\ db_read = "unopened"
  /\ df = [columns |-> << >>, rows |-> << >>]
  /\ df_in = [columns |-> << >>, rows |-> << >>]
  /\ msp_columns \in MspColumns
  /\ column_mapping \in ColumnMappings
  /\ chunk_size \in 0..MaxChunk
  /\ df_split = << >>
  /\ i = 0
  /\ row = 0
  /\ files = << >>
  /\ stdout = << >>

\* line 37: psycopg2.connect(**ges)
Connect ==
  /\ pc = "connect"
  /\ db_read' = "open"
  /\ pc' = "read_sql"
  /\ UNCHANGED <<called, exc, df, df_in, msp_columns, column_mapping,
                 chunk_size, df_split, i, row, files, stdout>>

ConnectFails ==
  /\ pc = "connect"
  /\ exc' = "OperationalError"
  /\ pc' = "raised"
  /\ UNCHANGED <<called, db_read, df, df_in, msp_columns, column_mapping,
                 chunk_size, df_split, i, row, files, stdout>>

\* line 49: data = pd.read_sql(sql, db_read)
ReadSql ==
  /\ pc = "read_sql"
  /\ \E rds \in RowLists : df' = read_sql(msp_columns, rds)
  /\ pc' = "sort_values"
  /\ UNCHANGED <<called, exc, db_read, df_in, msp_columns, column_mapping,
                 chunk_size, df_split, i, row, files, stdout>>

ReadSqlFails ==
  /\ pc = "read_sql"
  /\ exc' = "DatabaseError"
  /\ pc' = "raised"
  /\ UNCHANGED <<called, db_read, df, df_in, msp_columns, column_mapping,
                 chunk_size, df_split, i, row, files, stdout>>

\* line 50: data.sort_values('created', inplace=True)
SortValues ==
  /\ pc = "sort_values"
  /\ IF has_column(df, "created")
     THEN /\ df' = sort_values(df)
          /\ pc' = "close"
          /\ exc' = exc
     ELSE /\ exc' = "KeyError"
          /\ pc' = "raised"
          /\ df' = df
  /\ UNCHANGED <<called, db_read, df_in, msp_columns, column_mapping,
                 chunk_size, df_split, i, row, files, stdout>>

\* lines 51-52: db_read.close(); return data.  The driver passes the
\* result on to write_files (line 135).
close_connection(c) == "closed"
CloseAndReturn ==
  /\ pc = "close"
  /\ db_read' = close_connection(db_read)
  /\ called' = "write_files"
  /\ df_in' = df
  /\ pc' = "rename"
  /\ UNCHANGED <<exc, df, msp_columns, column_mapping,
                 chunk_size, df_split, i, row, files, stdout>>

(* ------------------------------ write_files ---------------------------- *)

\* line 77: df.rename(mapper=column_mapping, inplace=True, axis=1)
Rename ==
  /\ pc = "rename"
  /\ df' = rename(df, column_mapping)
  /\ pc' = "fill_heat_flow"
  /\ UNCHANGED <<called, exc, db_read, df_in, msp_columns, column_mapping,
                 chunk_size, df_split, i, row, files, stdout>>

\* lines 78-79
fills_heat_flow(mapper) == "heat_flow_rate" \in mapping_values(mapper)
FillHeatFlow ==
  /\ pc = "fill_heat_flow"
  /\ IF ~fills_heat_flow(column_mapping)
     THEN /\ pc' = "fill_outdoor"
          /\ UNCHANGED <<df, exc>>
     ELSE IF has_column(df, "heat_flow_rate")
     THEN /\ df' = fillna_zero(df, "heat_flow_rate")
          /\ pc' = "fill_outdoor"
          /\ exc' = exc
     ELSE /\ exc' = "KeyError"
          /\ pc' = "raised"
          /\ df' = df
  /\ UNCHANGED <<called, db_read, df_in, msp_columns, column_mapping,
                 chunk_size, df_split, i, row, files, stdout>>

\* line 80
FillOutdoor ==
  /\ pc = "fill_outdoor"
  /\ IF has_column(df, "outdoor_temperature")
     THEN /\ df' = set_column(df, "outdoor_temperature",
                              ffill(get_column(df, "outdoor_temperature")))
          /\ pc' = "split"
          /\ exc' = exc
     ELSE /\ exc' = "KeyError"
          /\ pc' = "raised"
          /\ df' = df
  /\ UNCHANGED <<called, db_read, df_in, msp_columns, column_mapping,
                 chunk_size, df_split, i, row, files, stdout>>

\* line 83: chunks = int(len(df)/chunk_size)
chunks_rounded_up(nrows, size) == (nrows + size - 1) \div size
chunks(nrows, size) == nrows \div size

\* np.array_split: the first (Ntotal mod Nsections) sections hold one row
\* more than the others.
section_sizes_extras_last(Ntotal, Nsections) ==
  [s \in 1..Nsections |->
     IF s < Nsections THEN Ntotal \div Nsections
     ELSE (Ntotal \div Nsections) + (Ntotal % Nsections)]
section_sizes(Ntotal, Nsections) ==
  [s \in 1..Nsections |->
     IF s <= Ntotal % Nsections THEN (Ntotal \div Nsections) + 1
     ELSE Ntotal \div Nsections]
RECURSIVE div_point(_, _)
div_point(sizes, s) == IF s = 0 THEN 0 ELSE div_point(sizes, s - 1) + sizes[s]
array_split_reversed(rows, Nsections) ==
  [s \in 1..Nsections |->
     SubSeq(rows,
            div_point(section_sizes(Len(rows), Nsections), Nsections - s) + 1,
            div_point(section_sizes(Len(rows), Nsections), Nsections - s + 1))]
array_split(rows, Nsections) ==
  [s \in 1..Nsections |->
     SubSeq(rows,
            div_point(section_sizes(Len(rows), Nsections), s - 1) + 1,
            div_point(section_sizes(Len(rows), Nsections), s))]

\* lines 83-85
Split ==
  /\ pc = "split"
  /\ IF chunk_size = 0
     THEN /\ exc' = "ZeroDivisionError"
          /\ pc' = "raised"
          /\ UNCHANGED <<df_split, stdout>>
     ELSE IF chunks(Len(df.rows), chunk_size) <= 0
     THEN /\ exc' = "ValueError"
          /\ pc' = "raised"
          /\ UNCHANGED <<df_split, stdout>>
     ELSE /\ df_split' = array_split(df.rows, chunks(Len(df.rows), chunk_size))
          /\ stdout' = Append(stdout,
                         ToString(chunks(Len(df.rows), chunk_size)))
          /\ pc' = "for_i"
          /\ exc' = exc
  /\ i' = 0
  /\ UNCHANGED <<called, db_read, df, df_in, msp_columns, column_mapping,
                 chunk_size, row, files>>

(* line protocol text *)

RECURSIVE join(_, _)
join(sep, list) ==
  IF Len(list) = 0 THEN ""
  ELSE IF Len(list) = 1 THEN list[1]
  ELSE list[1] \o sep \o join(sep, Tail(list))

\* str(value) of a cell
str(c) == IF isna(c) THEN "nan" ELSE ToString(c.v) \o ".0"

\* str(row.created.timestamp()).split('.'): the text of the float left and
\* right of its decimal point.
timestamp_split(c) == <<ToString(c.v \div 10), ToString(c.v % 10)>>

\* line 81
line_reference == join(",", <<db_name, join("=", <<"equipment", equip_uuid>>)>>)

\* lines 90-93: measures after the columns 1..j
RECURSIVE measures(_, _, _)
measures(cols, r, j) ==
  IF j = 0 THEN << >>
  ELSE IF cols[j] # "created"
       THEN Append(measures(cols, r, j - 1), join("=", <<cols[j], str(r[j])>>))
       ELSE measures(cols, r, j - 1)

\* lines 94-96
lp_line(cols, r) ==
  join(" ", <<line_reference,
              join(",", measures(cols, r, Len(cols))),
              timestamp_split(r[CHOOSE j \in 1..Len(cols) : cols[j] = "created"])[1],
              "\n">>)

\* line 87
lp_file_name(n) ==
  join("_", <<"../temp_files/cgb_ges_data/" \o db_name, site_name,
              "chunk_" \o ToString(n) \o ".txt">>)

\* line 88
OpenChunk ==
  /\ pc = "for_i"
  /\ i < Len(df_split)
  /\ files' = Append(files, [name |-> lp_file_name(i), lines |-> << >>,
                             state |-> "open"])
  /\ row' = 1
  /\ pc' = "for_row"
  /\ UNCHANGED <<called, exc, db_read, df, df_in, msp_columns,
                 column_mapping, chunk_size, df_split, i, stdout>>

OpenFails ==
  /\ pc = "for_i"
  /\ i < Len(df_split)
  /\ exc' = "OSError"
  /\ pc' = "raised"
  /\ UNCHANGED <<called, db_read, df, df_in, msp_columns, column_mapping,
                 chunk_size, df_split, i, row, files, stdout>>

\* lines 89-97
WriteRow ==
  /\ pc = "for_row"
  /\ row <= Len(df_split[i + 1])
  /\ files' = [files EXCEPT ![i + 1].lines =
                 Append(@, lp_line(df.columns, df_split[i + 1][row]))]
  /\ row' = row + 1
  /\ UNCHANGED <<pc, called, exc, db_read, df, df_in, msp_columns,
                 column_mapping, chunk_size, df_split, i, stdout>>

WriteFails ==
  /\ pc = "for_row"
  /\ row <= Len(df_split[i + 1])
  /\ exc' = "OSError"
  /\ pc' = "raised"
  /\ UNCHANGED <<called, db_read, df, df_in, msp_columns, column_mapping,
                 chunk_size, df_split, i, row, files, stdout>>

\* lines 98-99
leave_open(f) == f
flush_close(f) == [f EXCEPT !.state = "closed"]
FlushClose ==
  /\ pc = "for_row"
  /\ row > Len(df_split[i + 1])
  /\ files' = [files EXCEPT ![i + 1] = flush_close(@)]
  /\ i' = i + 1
  /\ pc' = "for_i"
  /\ UNCHANGED <<called, exc, db_read, df, df_in, msp_columns,
                 column_mapping, chunk_size, df_split, row, stdout>>

\* line 100
Return ==
  /\ pc = "for_i"
  /\ i >= Len(df_split)
  /\ pc' = "done"
  /\ UNCHANGED <<called, exc, db_read, df, df_in, msp_columns,
                 column_mapping, chunk_size, df_split, i, row, files, stdout>>

Next ==
  \/ Connect \/ ConnectFails \/ ReadSql \/ ReadSqlFails \/ SortValues
  \/ CloseAndReturn \/ Rename \/ FillHeatFlow \/ FillOutdoor \/ Split
  \/ OpenChunk \/ OpenFails \/ WriteRow \/ WriteFails \/ FlushClose
  \/ Return

Spec == Init /\ [][Next]_vars

(* ------------------------------ properties ----------------------------- *)

WriteFilesEnded == called = "write_files" /\ pc \in {"done", "raised"}

\* lines 77-80 have all run
NormalizationDone ==
  /\ called = "write_files"
  /\ \/ pc \in {"split", "for_i", "for_row", "done"}
     \/ pc = "raised" /\ exc \in {"ZeroDivisionError", "ValueError", "OSError"}

RECURSIVE all_lines(_, _)
all_lines(fs, n) ==
  IF n = 0 THEN << >> ELSE all_lines(fs, n - 1) \o fs[n].lines

Warned == \E n \in 1..Len(stdout) : stdout[n] = "warning"

\* C1: for a table of R rows and a chunk size C with 1 <= C <= R, a
\* write_files that no missing column and no I/O error interrupts ends
\* normally with exactly R // C files, named chunk_0 .. chunk_(R//C - 1),
\* whose line counts sum to R.
C1_ChunkCount ==
  (/\ WriteFilesEnded
   /\ exc \notin {"KeyError", "OSError"}
   /\ chunk_size >= 1
   /\ Len(df.rows) >= chunk_size)
  => /\ pc = "done"
     /\ Len(files) = Len(df.rows) \div chunk_size
     /\ \A n \in 1..Len(files) :
          files[n].name = "../temp_files/cgb_ges_data/otherm-data_site_chunk_"
                            \o ToString(n - 1) \o ".txt"
     /\ Len(all_lines(files, Len(files))) = Len(df.rows)

C1_Witness ==
  /\ pc = "done"
  /\ Len(df.rows) = 5
  /\ chunk_size = 2
  /\ Len(files) = 2

\* C2: for a table of R rows and a chunk size C with R < C, write_files
\* ends normally with no file written and a warning reported.
C2_ZeroChunksNoCrash ==
  (/\ WriteFilesEnded
   /\ exc # "KeyError"
   /\ Len(df.rows) < chunk_size)
  => /\ pc = "done"
     /\ exc = "none"
     /\ Len(files) = 0
     /\ Warned

\* C3: the n-th line written is the tag segment, one space, the field
\* segment, one space, the timestamp segment and the newline, nothing else;
\* the field segment is the name=value pairs of the columns other than
\* created, in column order, joined by commas.
C3_LineFormat ==
  \A n \in 1..Len(all_lines(files, Len(files))) :
    all_lines(files, Len(files))[n] =
      "otherm-data,equipment=abc-123" \o " "
        \o join(",", measures(df.columns, df.rows[n], Len(df.columns)))
        \o " "
        \o ToString(df.rows[n][col_index(df, "created")].v \div 10)
        \o "\n"

\* C4: after a normal end the lines of chunk_0, chunk_1, ... read in index
\* order are the lines of the table's rows in row order, one per row.
C4_ContiguousOrdered ==
  pc = "done"
  => all_lines(files, Len(files)) =
       [n \in 1..Len(df.rows) |-> lp_line(df.columns, df.rows[n])]

C4_Witness ==
  /\ pc = "done"
  /\ Len(files) = 2
  /\ Len(files[1].lines) = 3
  /\ Len(files[2].lines) = 2
  /\ files[1].lines[3] # files[2].lines[1]

\* C5: after normalization, in the outdoor_temperature column a value that
\* was not missing is unchanged, a missing value with a non-missing value
\* before it equals the nearest such value, and a missing value with none
\* before it is still missing.
C5_ForwardFill ==
  NormalizationDone
  => \A j \in 1..Len(df.columns) : \A n \in 1..Len(df.rows) :
       df.columns[j] = "outdoor_temperature"
       => LET before(m) == df_in.rows[m][j]
              preceding == {m \in 1..(n - 1) : ~isna(before(m))}
          IN  IF ~isna(before(n)) THEN df.rows[n][j] = before(n)
              ELSE IF preceding # {}
              THEN df.rows[n][j] =
                     before(CHOOSE m \in preceding :
                              \A q \in preceding : q <= m)
              ELSE isna(df.rows[n][j])

C5_Witness ==
  /\ NormalizationDone
  /\ has_column(df, "outdoor_temperature")
  /\ get_column(df_in, "outdoor_temperature")
       = <<NaN, Float(5), NaN, Float(7)>>
  /\ get_column(df, "outdoor_temperature")
       = <<NaN, Float(5), Float(5), Float(7)>>

\* C6: when write_files ends, the caller's table has the column names and
\* the cell values it had before the call.
C6_CallerTableUnchanged == WriteFilesEnded => df = df_in

\* C6 as amended: write_files renames and fills the caller's table in
\* place; when it ends the table has the same rows in the same order, each
\* column carries the mapping's name for it (its own name when the mapping
\* has none), and every cell that was not missing has its value.
C6_RenamedInPlace ==
  WriteFilesEnded
  => /\ Len(df.rows) = Len(df_in.rows)
     /\ Len(df.columns) = Len(df_in.columns)
     /\ \A j \in 1..Len(df.columns) :
          df.columns[j] = IF df_in.columns[j] \in DOMAIN column_mapping
                          THEN column_mapping[df_in.columns[j]]
                          ELSE df_in.columns[j]
     /\ \A n \in 1..Len(df.rows) : \A j \in 1..Len(df.columns) :
          ~isna(df_in.rows[n][j]) => df.rows[n][j] = df_in.rows[n][j]

C6_Witness ==
  /\ pc = "done"
  /\ df.columns # df_in.columns
  /\ df.rows # df_in.rows

\* C7: a call of get_data_for_influx that opened a connection has closed
\* it when the call ends, by return or by exception.
C7_ConnectionReleased ==
  (pc \notin {"connect", "read_sql", "sort_values", "close"}
     /\ db_read # "unopened")
  => db_read = "closed"

\* C8: at most one chunk file is open at a time, every file before the
\* newest is closed and holds all lines of its chunk, and no step, a
\* failing write included, changes a closed file.
C8_FilesScopedPerChunk ==
  /\ [](/\ Cardinality({n \in 1..Len(files) : files[n].state = "open"}) <= 1
        /\ \A n \in 1..(Len(files) - 1) :
             /\ files[n].state = "closed"
             /\ Len(files[n].lines) = Len(df_split[n]))
  /\ [][\A n \in 1..Len(files) :
          files[n].state = "closed"
          => n <= Len(files') /\ files'[n] = files[n]]_vars

C8_Witness ==
  /\ pc = "raised"
  /\ exc = "OSError"
  /\ Len(files) = 2
  /\ files[1].state = "closed"
  /\ files[2].state = "open"
  /\ Len(files[2].lines) = 1
  /\ Len(df_split[2]) = 2

\* C9: normalization replaces the missing values of heat_flow_rate by 0
\* exactly when heat_flow_rate is a target name of the mapping, and alters
\* no cell of a column other than heat_flow_rate and outdoor_temperature.
C9_ZeroFillFrame ==
  NormalizationDone
  => \A j \in 1..Len(df.columns) : \A n \in 1..Len(df.rows) :
       IF df.columns[j] = "heat_flow_rate"
       THEN IF \E c \in DOMAIN column_mapping :
                 column_mapping[c] = "heat_flow_rate"
            THEN df.rows[n][j] = IF isna(df_in.rows[n][j]) THEN Float(0)
                                 ELSE df_in.rows[n][j]
            ELSE df.rows[n][j] = df_in.rows[n][j]
       ELSE df.columns[j] # "outdoor_temperature"
            => df.rows[n][j] = df_in.rows[n][j]

C9_Witness ==
  /\ NormalizationDone
  /\ column_mapping = DriverMapping
  /\ has_column(df, "heat_flow_rate")
  /\ has_column(df, "source_supplytemp")
  /\ \E n \in 1..Len(df.rows) :
       /\ isna(get_column(df_in, "heat_flow_1")[n])
       /\ get_column(df, "heat_flow_rate")[n] = Float(0)
       /\ isna(get_column(df, "source_supplytemp")[n])

====
